---- MODULE Spec2Model ----
(***************************************************************************)
(* Model of the lyra bot core: the gateway event dispatcher (process), the *)
(* typed interaction-context constructors generated by declare_kinds, and  *)
(* the volume Down command running as concurrent tasks over the per-guild  *)
(* player data (an RwLock-guarded record) and the remote player / voice    *)
(* HTTP clients.                                                           *)
(***************************************************************************)
EXTENDS Integers, Sequences, FiniteSets, TLC

(* ------------------------------ bounds --------------------------------- *)
MaxTasks == 2       \* concurrent command tasks
MaxEvents == 2      \* events dispatched in the dispatcher specification
MaxGuilds == 2
MaxId == 2          \* distinct interaction payloads
MaxUpdates == 2     \* filter updates applied in a row to one FilterSet

Tasks == 1..MaxTasks
Guilds == 1..MaxGuilds
Ids == 1..MaxId
NoTask == 0

(* ------------------------- program constants --------------------------- *)
\* #[command(min_value = 1, max_value = 1_000)] on Down::percent
MIN_PERCENT == 1
MAX_PERCENT == 1000
\* self.percent.unwrap_or(10)
DEFAULT_PERCENT == 10
\* width of u16
U16_MODULUS == 65536

\* Option<T>: None is the empty sequence, Some(x) the one-element sequence.
None == <<>>
Some(x) == <<x>>
unwrap_or(o, d) == IF o = None THEN d ELSE o[1]

\* Representative stored volumes (NonZeroU16, kept within 1..=1000) and
\* command arguments (Option<i64> within min_value..=max_value).
Volumes == {30, MAX_PERCENT}
Percents == {None, Some(20), Some(MAX_PERCENT)}

(* ------------------- typed context construction ------------------------ *)
InteractionType ==
    {"Ping", "ApplicationCommand", "MessageComponent",
     "ApplicationCommandAutocomplete", "ModalSubmit"}

\* the kinds passed to #[declare_kinds(...)]
kinds == {"App", "Component", "Modal", "Autocomplete"}

inter_types_swapped(k) ==
    CASE k = "App" -> "ApplicationCommand"
      [] k = "Component" -> "MessageComponent"
      [] k = "Modal" -> "MessageComponent"
      [] k = "Autocomplete" -> "ApplicationCommandAutocomplete"

inter_types(k) ==
    CASE k = "App" -> "ApplicationCommand"
      [] k = "Component" -> "MessageComponent"
      [] k = "Modal" -> "ModalSubmit"
      [] k = "Autocomplete" -> "ApplicationCommandAutocomplete"

fn_idents(k) ==
    CASE k = "App" -> "from_app_interaction"
      [] k = "Component" -> "from_component_interaction"
      [] k = "Modal" -> "from_modal_interaction"
      [] k = "Autocomplete" -> "from_autocomplete_interaction"

\* format!("interaction.kind must be {}", kc), kept as the text and the kind
panic_msgs(k) == <<"interaction.kind must be", k>>

\* A raw InteractionCreate payload: wire discriminant, id, guild and the
\* command data (the optional percent of the down command).
Interactions ==
    [kind : InteractionType, id : Ids, guild_id : Guilds,
     name : {"down"}, percent : Percents]

Bots == {"bot"}
NoBot == "no_bot"
NoInteraction ==
    [kind |-> "Ping", id |-> 0, guild_id |-> 0, name |-> "none", percent |-> None]

\* What a call of Context::<K>::from_<k>_interaction produces: either the
\* returned Context<K> or a panic carrying the generated message.
Returned(k, interaction, bot) ==
    [outcome |-> "return", fn |-> fn_idents(k), kind |-> k, bot |-> bot,
     interaction |-> interaction, msg |-> <<>>]
Panicked(k) ==
    [outcome |-> "panic", fn |-> fn_idents(k), kind |-> "none", bot |-> NoBot,
     interaction |-> NoInteraction, msg |-> panic_msgs(k)]
NotCalled ==
    [outcome |-> "none", fn |-> "none", kind |-> "none", bot |-> NoBot,
     interaction |-> NoInteraction, msg |-> <<>>]

from_interaction_unchecked(k, interaction, bot) == Returned(k, interaction, bot)

from_interaction_err(k, interaction, bot) ==
    IF interaction.kind = inter_types(k)
    THEN Returned(k, interaction, bot)
    ELSE [Panicked(k) EXCEPT !.outcome = "err"]

from_interaction_stale(k, interaction, bot) ==
    IF interaction.kind = inter_types(k)
    THEN Returned(k, [interaction EXCEPT !.id = 0], bot)
    ELSE Panicked(k)

from_interaction(k, interaction, bot) ==
    IF interaction.kind = inter_types(k)
    THEN Returned(k, interaction, bot)
    ELSE Panicked(k)

(* --------------------------- Down arithmetic --------------------------- *)
as_u16(x) == x % U16_MODULUS

checked_sub_wrapping(a, b) == Some((a - b) % U16_MODULUS)

checked_sub(a, b) == IF a >= b THEN Some(a - b) ELSE None

NonZeroU16_new_any(n) == Some(n)

NonZeroU16_new(n) == IF n # 0 THEN Some(n) ELSE None

and_then_NonZeroU16_new(o) == IF o = None THEN None ELSE NonZeroU16_new(o[1])

maybe_new_percent_saturating(old_percent, percent) ==
    LET d == as_u16(unwrap_or(percent, DEFAULT_PERCENT))
    IN  Some(IF old_percent >= d THEN old_percent - d ELSE 0)

\* old_percent.get().checked_sub(self.percent.unwrap_or(10) as u16)
\*     .and_then(NonZeroU16::new)
maybe_new_percent(old_percent, percent) ==
    and_then_NonZeroU16_new(
        checked_sub(old_percent, as_u16(unwrap_or(percent, DEFAULT_PERCENT))))

(* ----------------------------- filter model --------------------------- *)
\* f64 multipliers are kept on an integer grid that preserves their order:
\* one step is half the machine epsilon (the gap between 1.0 and the float
\* below it), and 1.0 is the grid point ONE.  On this grid 0.5, 1.5 and 2.0
\* are HALF, 3 * HALF and 2 * ONE.
\* SetPitch::DEFAULT_PITCH = 1., SpeedFilter::DEFAULT_SPEED = 1.
DEFAULT_PITCH == 400
DEFAULT_SPEED == 400
\* const ERR_MARGIN: f64 = f64::EPSILON
ERR_MARGIN == 2

ONE == DEFAULT_PITCH
HALF == ONE \div 2
Multipliers ==
    {0 - HALF, 0, 1, HALF, ONE - ERR_MARGIN, ONE - 1, ONE,
     ONE + ERR_MARGIN, ONE + 2 * ERR_MARGIN, 3 * HALF, 2 * ONE}

abs(x) == IF x < 0 THEN 0 - x ELSE x

\* An effect: SetPitch(Option<f64>) or SpeedFilter { multiplier, pitch_shift }
\* (pitch_shift is FALSE in a SetPitch).
Effect(type, multiplier, pitch_shift) ==
    [type |-> type, multiplier |-> multiplier, pitch_shift |-> pitch_shift]

SetPitch_new_unnormalised(multiplier) ==
    IF multiplier # 0
    THEN Some(Effect("pitch", Some(multiplier), FALSE))
    ELSE None

\* SetPitch::new
SetPitch_new(multiplier) ==
    IF multiplier # 0
    THEN Some(Effect("pitch",
                     IF abs(multiplier - DEFAULT_PITCH) > ERR_MARGIN
                     THEN Some(multiplier) ELSE None,
                     FALSE))
    ELSE None

SpeedFilter_new_any(multiplier, pitch_shift) ==
    Some(Effect("speed",
                IF abs(multiplier - DEFAULT_SPEED) > ERR_MARGIN
                THEN Some(multiplier) ELSE None,
                pitch_shift))

\* SpeedFilter::new
SpeedFilter_new(multiplier, pitch_shift) ==
    IF multiplier # 0
    THEN Some(Effect("speed",
                     IF abs(multiplier - DEFAULT_SPEED) > ERR_MARGIN
                     THEN Some(multiplier) ELSE None,
                     pitch_shift))
    ELSE None

\* SetPitch::multiplier, SpeedFilter::multiplier
SetPitch_multiplier(update) == unwrap_or(update.multiplier, DEFAULT_PITCH)
SpeedFilter_multiplier(filter) == unwrap_or(filter.multiplier, DEFAULT_SPEED)

\* SetPitch::tier: None => Default, Some(0.0..=1.0) => Low, _ => High
SetPitch_tier(update) ==
    IF update.multiplier = None THEN "Default"
    ELSE IF 0 <= update.multiplier[1] /\ update.multiplier[1] <= ONE THEN "Low"
    ELSE "High"

\* SpeedFilter::tier: None => Default, Some(0.0..=1.0) => Slow, _ => Fast
SpeedFilter_tier(filter) ==
    IF filter.multiplier = None THEN "Default"
    ELSE IF 0 <= filter.multiplier[1] /\ filter.multiplier[1] <= ONE THEN "Slow"
    ELSE "Fast"

\* lavalink_rs Timescale and Filters (the timescale slot and one other slot)
Timescale_default == [speed |-> None, pitch |-> None, rate |-> None]
Filters_default == [timescale |-> None, tremolo |-> None]
SomeTremolo == Some([frequency |-> 2, depth |-> 1])

SetPitch_into_timescale_via_fresh(update, timescale) ==
    [Timescale_default EXCEPT !.pitch = update.multiplier]

\* SetPitch::into_timescale_via: Timescale { pitch: self.0, ..*timescale }
SetPitch_into_timescale_via(update, timescale) ==
    [timescale EXCEPT !.pitch = update.multiplier]

SpeedFilter_into_timescale_via_keep(filter, timescale) ==
    IF filter.pitch_shift
    THEN [timescale EXCEPT !.rate = filter.multiplier]
    ELSE [timescale EXCEPT !.speed = filter.multiplier]

\* SpeedFilter::into_timescale_via: Timescale { speed, rate, ..*timescale }
SpeedFilter_into_timescale_via(filter, timescale) ==
    IF filter.pitch_shift
    THEN [timescale EXCEPT !.speed = None, !.rate = filter.multiplier]
    ELSE [timescale EXCEPT !.speed = filter.multiplier, !.rate = None]

\* <SetPitch as UpdateFilter>::apply
SetPitch_apply(update, filter) ==
    [filter EXCEPT !.timescale =
        Some(SetPitch_into_timescale_via(
                 update, unwrap_or(filter.timescale, Timescale_default)))]

SpeedFilter_apply_default(update, filter) ==
    [filter EXCEPT !.timescale =
        Some(SpeedFilter_into_timescale_via(update, Timescale_default))]

\* <SpeedFilter as UpdateFilter>::apply
SpeedFilter_apply(update, filter) ==
    [filter EXCEPT !.timescale =
        Some(SpeedFilter_into_timescale_via(
                 update, unwrap_or(filter.timescale, Timescale_default)))]

\* The two effects through their common interface
effect_new(type, multiplier, pitch_shift) ==
    IF type = "pitch" THEN SetPitch_new(multiplier)
    ELSE SpeedFilter_new(multiplier, pitch_shift)
effect_multiplier(update) ==
    IF update.type = "pitch" THEN SetPitch_multiplier(update)
    ELSE SpeedFilter_multiplier(update)
effect_tier(update) ==
    IF update.type = "pitch" THEN SetPitch_tier(update) ELSE SpeedFilter_tier(update)
effect_apply(update, filter) ==
    IF update.type = "pitch" THEN SetPitch_apply(update, filter)
    ELSE SpeedFilter_apply(update, filter)

\* FilterSets an update starts from
FilterInputs ==
    [timescale : {None, Some(Timescale_default),
                  Some([speed |-> Some(HALF), pitch |-> Some(2 * ONE),
                        rate |-> Some(3 * HALF)])},
     tremolo : {None, SomeTremolo}]

(* ------------------------------- state --------------------------------- *)
VARIABLES
    volume,         \* PlayerData::volume of each guild (NonZeroU16)
    mute,           \* lavalink.connection(guild).mute
    remote_volume,  \* volume last acknowledged by the remote player
    remote_mute,    \* voice mute last acknowledged by the HTTP API
    readers,        \* tasks holding a read guard of the guild's player data
    writer,         \* task holding the write guard of the guild's player data
    task,           \* per dispatched event: position and locals of its task
    volume0,        \* history: the volume each guild started with
    applied,        \* history: sum of the decrements of the completed Downs
    last_call,      \* the last direct call of a typed-context constructor
    filter_set,     \* a FilterSet that filter updates are applied to in a row
    updates,        \* the updates applied to filter_set, oldest first
    pitch,          \* PlayerData::pitch of each guild (the multiplier set)
    filters,        \* filters last acknowledged by the remote player
    util,           \* the last call of a function of ext::util and its result
    interleave,     \* a MultiInterleave and what its next() calls returned
    request         \* the last request given to interaction_handler

vars == <<volume, mute, remote_volume, remote_mute, readers, writer, task,
          volume0, applied, last_call, filter_set, updates, pitch, filters,
          util, interleave, request>>

ext == <<util, interleave, request>>

tuning == <<filter_set, updates, pitch, filters>>

player == <<volume, mute, remote_volume, remote_mute, readers, writer>>

\* twilight_gateway::Event variants: the five matched by process and two of
\* the variants that fall into the default arm.
HandledEvents ==
    {"Ready", "GuildCreate", "GuildDelete", "InteractionCreate", "VoiceStateUpdate"}
OtherEvents == {"MessageCreate", "TypingStart"}
EventKinds == HandledEvents \cup OtherEvents

\* InteractionCreate events carrying the down command
CommandEvents ==
    [kind : {"InteractionCreate"},
     interaction : [kind : {"ApplicationCommand"}, id : {1}, guild_id : Guilds,
                    name : {"down"}, percent : Percents]]

\* InteractionCreate events of the other discriminants carry no command data
Events ==
    [kind : EventKinds \ {"InteractionCreate"}, interaction : {NoInteraction}]
    \cup [kind : {"InteractionCreate"},
          interaction : [kind : InteractionType \ {"ApplicationCommand"},
                         id : {1}, guild_id : {1}, name : {"none"},
                         percent : {None}]]
    \cup CommandEvents

ProcessTasks == {t \in Tasks : t <= MaxEvents}

IdleTask ==
    [pc |-> "idle", event |-> [kind |-> "none", interaction |-> NoInteraction],
     context |-> "none", invoked |-> 0, ctor |-> NotCalled,
     guild_id |-> 0, percent |-> None, old_percent |-> None,
     new_percent |-> None, calls |-> <<>>, result |-> "pending",
     handler_result |-> "none",
     multiplier |-> 0, pitch_shift |-> None, update |-> None, magnitude |-> 0,
     acked |-> FALSE, wrote |-> FALSE]

InitCore ==
    /\ volume \in [Guilds -> Volumes]
    /\ mute = [g \in Guilds |-> FALSE]
    /\ remote_volume = volume
    /\ remote_mute = mute
    /\ readers = [g \in Guilds |-> {}]
    /\ writer = [g \in Guilds |-> NoTask]
    /\ task = [t \in Tasks |-> IdleTask]
    /\ volume0 = volume
    /\ applied = [g \in Guilds |-> 0]
    /\ last_call = [kind |-> "none", interaction |-> NoInteraction,
                    bot |-> NoBot, result |-> NotCalled]

\* nothing of ext::util or of the interactions server has been called
NoCall == [fn |-> "none"]
InitExt ==
    /\ util = NoCall
    /\ interleave = NoCall
    /\ request = NoCall

Init ==
    /\ InitCore
    /\ filter_set = Filters_default
    /\ updates = <<>>
    /\ pitch = [g \in Guilds |-> DEFAULT_PITCH]
    /\ filters = [g \in Guilds |-> Filters_default]
    /\ InitExt

\* Events are spawned as tasks in arrival order.
CanDispatch(t) ==
    /\ task[t].pc = "idle"
    /\ t > 1 => task[t - 1].pc # "idle"

\* Guilds are interchangeable (Init gives them every combination of volumes),
\* so the guilds are numbered in the order in which commands first name them.
FreshGuild(e) ==
    \A g \in Guilds :
        g < e.interaction.guild_id =>
            \E u \in Tasks : task[u].event.interaction.guild_id = g

process_result_suppressed(handler_result) ==
    IF handler_result = "err" THEN "ok" ELSE handler_result

\* What an arm of process evaluates to: the value of its
\* <context>.process().await, which is the last expression of the arm.
process_result(handler_result) == handler_result

\* The processing invoked by process returns res, and process returns.
Finish(rec, res) ==
    [rec EXCEPT !.pc = "done", !.handler_result = res,
                !.result = process_result(res)]

(* ----------------------------- dispatcher ------------------------------ *)
process_other_err(t, e) ==
    /\ CanDispatch(t)
    /\ e.kind \notin HandledEvents
    /\ task' = [task EXCEPT ![t] =
                   [@ EXCEPT !.event = e, !.pc = "done", !.result = "err"]]
    /\ UNCHANGED <<player, volume0, applied, last_call, tuning, ext>>

\* process, default arm: _ => Ok(())
process_other(t, e) ==
    /\ CanDispatch(t)
    /\ e.kind \notin HandledEvents
    /\ task' = [task EXCEPT ![t] =
                   [@ EXCEPT !.event = e, !.pc = "done", !.result = "ok"]]
    /\ UNCHANGED <<player, volume0, applied, last_call, tuning, ext>>

\* process, arms Ready / GuildCreate / GuildDelete / VoiceStateUpdate: build
\* the context of the event and return what its process() returns.
process_gateway(t, e) ==
    /\ CanDispatch(t)
    /\ e.kind \in HandledEvents \ {"InteractionCreate"}
    /\ \E res \in {"ok", "err"} :
         task' = [task EXCEPT ![t] =
                     Finish([@ EXCEPT !.event = e, !.context = e.kind,
                                      !.invoked = 1], res)]
    /\ UNCHANGED <<player, volume0, applied, last_call, tuning, ext>>

\* The constructor the interaction-create processing selects for a wire
\* discriminant: the kind mapped to it, none for Ping.
matching_kind(discriminant) ==
    CASE discriminant = "ApplicationCommand" -> "App"
      [] discriminant = "MessageComponent" -> "Component"
      [] discriminant = "ModalSubmit" -> "Modal"
      [] discriminant = "ApplicationCommandAutocomplete" -> "Autocomplete"
      [] OTHER -> "none"

\* Down::run up to its first access of the player data: common_checks(&ctx)?
Down_run(rec, checks_pass) ==
    IF checks_pass
    THEN [rec EXCEPT !.pc = "read_wait",
                     !.guild_id = rec.event.interaction.guild_id,
                     !.percent = rec.event.interaction.percent]
    ELSE Finish(rec, "err")

\* Processing of the interaction-create context: select the typed-context
\* constructor of the interaction's own discriminant, build the Context<K>
\* and run what handles it (the down command for an application command).
\* The set of records the task can be left in.
interaction_create_process(built) ==
    LET interaction == built.event.interaction
        k == matching_kind(interaction.kind)
        c == from_interaction(k, interaction, "bot")
        typed == [built EXCEPT !.ctor = c]
    IN  IF k = "none"
        THEN {Finish(built, res) : res \in {"ok", "err"}}
        ELSE IF c.outcome # "return"
        THEN {Finish(typed, c.outcome)}
        ELSE IF k = "App"
        THEN {Down_run(typed, checks_pass) : checks_pass \in BOOLEAN}
        ELSE {Finish(typed, res) : res \in {"ok", "err"}}

\* process, arm InteractionCreate:
\* bot.into_interaction_create_context(e, latency, sender).process().await
process_interaction(t, e) ==
    /\ CanDispatch(t)
    /\ e.kind = "InteractionCreate"
    /\ FreshGuild(e)
    /\ \E next \in interaction_create_process(
                      [task[t] EXCEPT !.event = e, !.context = e.kind,
                                      !.invoked = 1]) :
         task' = [task EXCEPT ![t] = next]
    /\ UNCHANGED <<player, volume0, applied, last_call, tuning, ext>>

(* ------------------------------ Down::run ------------------------------ *)
\* The lock of a guild's player data grants a read guard while no write
\* guard is held, and a write guard while no guard at all is held.
can_read(g) == writer[g] = NoTask
can_write(g) == writer[g] = NoTask /\ readers[g] = {}

\* data.read().await: the read guard is granted while no writer holds the lock
Down_read_acquire(t) ==
    LET g == task[t].guild_id IN
    /\ task[t].pc = "read_wait"
    /\ can_read(g)
    /\ readers' = [readers EXCEPT ![g] = @ \cup {t}]
    /\ task' = [task EXCEPT ![t].pc = "reading"]
    /\ UNCHANGED <<volume, mute, remote_volume, remote_mute, writer,
                   volume0, applied, last_call, tuning, ext>>

\* .volume() and the drop of the read guard, the computation of
\* maybe_new_percent, and the branch up to the remote call it awaits.
Down_read_volume(t) ==
    LET g == task[t].guild_id
        old == volume[g]
        new == maybe_new_percent(old, task[t].percent)
    IN
    /\ task[t].pc = "reading"
    /\ readers' = [readers EXCEPT ![g] = @ \ {t}]
    /\ IF new # None
       THEN /\ task' = [task EXCEPT ![t] =
                          [@ EXCEPT !.pc = "await_volume",
                                    !.old_percent = Some(old),
                                    !.new_percent = new,
                                    !.calls = Append(@, [method |-> "set_volume",
                                                         guild_id |-> g,
                                                         arg |-> new[1]])]]
            /\ mute' = mute
       ELSE /\ task' = [task EXCEPT ![t] =
                          [@ EXCEPT !.pc = "await_mute",
                                    !.old_percent = Some(old),
                                    !.new_percent = new,
                                    !.calls = Append(@, [method |-> "mute",
                                                         guild_id |-> g,
                                                         arg |-> 1])]]
            /\ mute' = [mute EXCEPT ![g] = TRUE]
    /\ UNCHANGED <<volume, remote_volume, remote_mute, writer,
                   volume0, applied, last_call, tuning, ext>>

\* lavalink.player(guild_id).set_volume(..).await succeeded
set_volume_ok(t) ==
    LET g == task[t].guild_id IN
    /\ task[t].pc = "await_volume"
    /\ remote_volume' = [remote_volume EXCEPT ![g] = task[t].new_percent[1]]
    /\ task' = [task EXCEPT ![t].pc = "write_wait"]
    /\ UNCHANGED <<volume, mute, remote_mute, readers, writer,
                   volume0, applied, last_call, tuning, ext>>

\* lavalink.player(guild_id).set_volume(..).await? returned the error
set_volume_err(t) ==
    /\ task[t].pc = "await_volume"
    /\ task' = [task EXCEPT ![t] = Finish(@, "err")]
    /\ UNCHANGED <<player, volume0, applied, last_call, tuning, ext>>

Down_write_acquire_nowait(t) ==
    LET g == task[t].guild_id IN
    /\ task[t].pc = "write_wait"
    /\ writer' = [writer EXCEPT ![g] = t]
    /\ task' = [task EXCEPT ![t].pc = "writing"]
    /\ UNCHANGED <<volume, mute, remote_volume, remote_mute, readers,
                   volume0, applied, last_call, tuning, ext>>

\* data.write().await: the write guard is granted while nobody holds the lock
Down_write_acquire(t) ==
    LET g == task[t].guild_id IN
    /\ task[t].pc = "write_wait"
    /\ can_write(g)
    /\ writer' = [writer EXCEPT ![g] = t]
    /\ task' = [task EXCEPT ![t].pc = "writing"]
    /\ UNCHANGED <<volume, mute, remote_volume, remote_mute, readers,
                   volume0, applied, last_call, tuning, ext>>

\* .set_volume(new_percent), the drop of the write guard, and out!(..)
Down_set_volume(t) ==
    LET g == task[t].guild_id IN
    /\ task[t].pc = "writing"
    /\ volume' = [volume EXCEPT ![g] = task[t].new_percent[1]]
    /\ writer' = [writer EXCEPT ![g] = NoTask]
    /\ applied' = [applied EXCEPT
                     ![g] = @ + as_u16(unwrap_or(task[t].percent, DEFAULT_PERCENT))]
    /\ task' = [task EXCEPT ![t] = Finish(@, "ok")]
    /\ UNCHANGED <<mute, remote_volume, remote_mute, readers, volume0, last_call, tuning,
                   ext>>

mute_ok_silencing(t) ==
    LET g == task[t].guild_id IN
    /\ task[t].pc = "await_mute"
    /\ remote_mute' = [remote_mute EXCEPT ![g] = TRUE]
    /\ volume' = [volume EXCEPT ![g] = MIN_PERCENT]
    /\ task' = [task EXCEPT ![t] = Finish(@, "ok")]
    /\ UNCHANGED <<mute, remote_volume, readers, writer,
                   volume0, applied, last_call, tuning, ext>>

\* ctx.http().update_guild_member(..).mute(true).await succeeded, and out!(..)
mute_ok(t) ==
    LET g == task[t].guild_id IN
    /\ task[t].pc = "await_mute"
    /\ remote_mute' = [remote_mute EXCEPT ![g] = TRUE]
    /\ task' = [task EXCEPT ![t] = Finish(@, "ok")]
    /\ UNCHANGED <<volume, mute, remote_volume, readers, writer,
                   volume0, applied, last_call, tuning, ext>>

\* ctx.http().update_guild_member(..).mute(true).await? returned the error
mute_err(t) ==
    /\ task[t].pc = "await_mute"
    /\ task' = [task EXCEPT ![t] = Finish(@, "err")]
    /\ UNCHANGED <<player, volume0, applied, last_call, tuning, ext>>

Down_step(t) ==
    \/ Down_read_acquire(t)
    \/ Down_read_volume(t)
    \/ set_volume_ok(t)
    \/ set_volume_err(t)
    \/ Down_write_acquire(t)
    \/ Down_set_volume(t)
    \/ mute_ok(t)
    \/ mute_err(t)

\* The dispatcher on its own: any event, each processed to completion before
\* the next one arrives (the concurrent runs are those of Spec).
Sequential(t) == t > 1 => task[t - 1].pc = "done"

NextProcess ==
    \/ \E t \in ProcessTasks, e \in Events : Sequential(t) /\ process_other(t, e)
    \/ \E t \in ProcessTasks, e \in Events : Sequential(t) /\ process_gateway(t, e)
    \/ \E t \in ProcessTasks, e \in Events : Sequential(t) /\ process_interaction(t, e)
    \/ \E t \in ProcessTasks : Down_step(t)

SpecProcess == Init /\ [][NextProcess]_vars

\* Concurrent tasks running the down command.
Next ==
    \/ \E t \in Tasks, e \in CommandEvents : process_interaction(t, e)
    \/ \E t \in Tasks : Down_read_acquire(t)
    \/ \E t \in Tasks : Down_read_volume(t)
    \/ \E t \in Tasks : set_volume_ok(t)
    \/ \E t \in Tasks : set_volume_err(t)
    \/ \E t \in Tasks : Down_write_acquire(t)
    \/ \E t \in Tasks : Down_set_volume(t)
    \/ \E t \in Tasks : mute_ok(t)
    \/ \E t \in Tasks : mute_err(t)

Spec == Init /\ [][Next]_vars

(* --------------- direct calls of the generated constructors ------------ *)
\* Context::<K>::from_<k>_interaction(interaction, bot) on any pair
call_constructor(k, interaction, bot) ==
    /\ last_call' = [kind |-> k, interaction |-> interaction, bot |-> bot,
                     result |-> from_interaction(k, interaction, bot)]
    /\ UNCHANGED <<player, task, volume0, applied, tuning, ext>>

NextCtor ==
    \E k \in kinds, interaction \in Interactions, bot \in Bots :
        call_constructor(k, interaction, bot)

\* No task runs in this specification; the guilds keep one volume.
InitCtor == Init /\ volume = [g \in Guilds |-> MAX_PERCENT]

SpecCtor == InitCtor /\ [][NextCtor]_vars

TypeOK ==
    /\ volume \in [Guilds -> Nat]
    /\ mute \in [Guilds -> BOOLEAN]
    /\ readers \in [Guilds -> SUBSET Tasks]
    /\ writer \in [Guilds -> Tasks \cup {NoTask}]

(* ------------------- filter updates applied in a row ------------------- *)
\* What one use of an effect leaves behind: the arguments, the constructed
\* effect (None when construction rejects), what it reports, and the
\* FilterSet before and after its apply.
Applied(type, multiplier, pitch_shift, update, before) ==
    [type |-> type, input |-> multiplier, pitch_shift |-> pitch_shift,
     update |-> update,
     magnitude |-> IF update = None THEN 0 ELSE effect_multiplier(update[1]),
     tier |-> IF update = None THEN "none" ELSE effect_tier(update[1]),
     before |-> before,
     after |-> IF update = None THEN before ELSE effect_apply(update[1], before)]

\* SetPitch::new(multiplier), then multiplier(), tier() and apply(filter)
SetPitch_update(multiplier) ==
    /\ Len(updates) < MaxUpdates
    /\ LET a == Applied("pitch", multiplier, FALSE,
                        effect_new("pitch", multiplier, FALSE), filter_set)
       IN  /\ updates' = Append(updates, a)
           /\ filter_set' = a.after
    /\ UNCHANGED <<player, task, volume0, applied, last_call, pitch, filters,
                   ext>>

\* SpeedFilter::new(multiplier, pitch_shift), then multiplier(), tier() and
\* apply(filter)
SpeedFilter_update(multiplier, pitch_shift) ==
    /\ Len(updates) < MaxUpdates
    /\ LET a == Applied("speed", multiplier, pitch_shift,
                        effect_new("speed", multiplier, pitch_shift), filter_set)
       IN  /\ updates' = Append(updates, a)
           /\ filter_set' = a.after
    /\ UNCHANGED <<player, task, volume0, applied, last_call, pitch, filters,
                   ext>>

NextFilter ==
    \/ \E multiplier \in Multipliers : SetPitch_update(multiplier)
    \/ \E multiplier \in Multipliers, pitch_shift \in BOOLEAN :
          SpeedFilter_update(multiplier, pitch_shift)

\* No task runs in this specification; the updates start from any FilterSet.
InitFilter ==
    /\ InitCore
    /\ volume = [g \in Guilds |-> MAX_PERCENT]
    /\ filter_set \in FilterInputs
    /\ updates = <<>>
    /\ pitch = [g \in Guilds |-> DEFAULT_PITCH]
    /\ filters = [g \in Guilds |-> Filters_default]
    /\ InitExt

SpecFilter == InitFilter /\ [][NextFilter]_vars

(* -------------------- pitch Set::run and Speed::run -------------------- *)
\* multipliers and pitch_shift options the commands are run with
CommandMultipliers == {0, 3 * HALF}
PitchShifts == {None, Some(TRUE)}

\* the application-command event a tuning command is run for
TuningEvent(name, g) ==
    [kind |-> "InteractionCreate",
     interaction |-> [kind |-> "ApplicationCommand", id |-> 1, guild_id |-> g,
                      name |-> name, percent |-> None]]

\* run of a tuning command up to the remote request it awaits:
\* common_checks(&ctx)?; the effect's new, with bad!(..) on none;
\* multiplier() and tier(); the call of set_filter.
\* The set of records the task can be left in.
tuning_run(rec, checks_pass) ==
    LET g == rec.event.interaction.guild_id
        type == IF rec.event.interaction.name = "set" THEN "pitch" ELSE "speed"
        update == effect_new(type, rec.multiplier,
                             unwrap_or(rec.pitch_shift, FALSE))
    IN  IF ~checks_pass
        THEN {Finish(rec, "err")}
        ELSE IF update = None
        THEN {Finish([rec EXCEPT !.guild_id = g], res) : res \in {"ok", "err"}}
        ELSE {[rec EXCEPT !.pc = "await_filter", !.guild_id = g,
                          !.update = update,
                          !.magnitude = effect_multiplier(update[1]),
                          !.calls = Append(@, [method |-> "set_filter",
                                               guild_id |-> g,
                                               arg |-> update[1]])]}

\* <Set as BotSlashCommand>::run up to set_filter(&ctx, update).await
Set_run(t, g, multiplier, checks_pass) ==
    /\ CanDispatch(t)
    /\ FreshGuild(TuningEvent("set", g))
    /\ \E next \in tuning_run([task[t] EXCEPT !.event = TuningEvent("set", g),
                                              !.multiplier = multiplier],
                               checks_pass) :
         task' = [task EXCEPT ![t] = next]
    /\ UNCHANGED <<player, volume0, applied, last_call, tuning, ext>>

\* <Speed as BotSlashCommand>::run up to set_filter(&ctx, filter).await
Speed_run(t, g, multiplier, pitch_shift, checks_pass) ==
    /\ CanDispatch(t)
    /\ FreshGuild(TuningEvent("speed", g))
    /\ \E next \in tuning_run([task[t] EXCEPT !.event = TuningEvent("speed", g),
                                              !.multiplier = multiplier,
                                              !.pitch_shift = pitch_shift],
                               checks_pass) :
         task' = [task EXCEPT ![t] = next]
    /\ UNCHANGED <<player, volume0, applied, last_call, tuning, ext>>

\* What follows set_filter(..).await? in the command: the write of the local
\* pitch in Set::run, out!(..) in Speed::run.
after_set_filter(rec) ==
    IF rec.event.interaction.name = "set"
    THEN [rec EXCEPT !.acked = TRUE, !.pc = "pitch_write_wait"]
    ELSE Finish([rec EXCEPT !.acked = TRUE], "ok")

set_filter_err_ignored(t) ==
    /\ task[t].pc = "await_filter"
    /\ task' = [task EXCEPT ![t] = [@ EXCEPT !.pc = "pitch_write_wait",
                                             !.handler_result = "err"]]
    /\ UNCHANGED <<player, volume0, applied, last_call, tuning, ext>>

\* set_filter(..).await? returned the error
set_filter_err(t) ==
    /\ task[t].pc = "await_filter"
    /\ task' = [task EXCEPT ![t] = Finish(@, "err")]
    /\ UNCHANGED <<player, volume0, applied, last_call, tuning, ext>>

\* set_filter(..).await succeeded: the remote player acknowledged the
\* guild's filters with the update applied to them
set_filter_ok(t) ==
    LET g == task[t].guild_id IN
    /\ task[t].pc = "await_filter"
    /\ filters' = [filters EXCEPT ![g] = effect_apply(task[t].update[1], @)]
    /\ task' = [task EXCEPT ![t] = after_set_filter(@)]
    /\ UNCHANGED <<player, volume0, applied, last_call, filter_set, updates,
                   pitch, ext>>

\* ctx.player_data().write().await
Set_write_acquire(t) ==
    LET g == task[t].guild_id IN
    /\ task[t].pc = "pitch_write_wait"
    /\ can_write(g)
    /\ writer' = [writer EXCEPT ![g] = t]
    /\ task' = [task EXCEPT ![t].pc = "pitch_writing"]
    /\ UNCHANGED <<volume, mute, remote_volume, remote_mute, readers,
                   volume0, applied, last_call, tuning, ext>>

Set_pitch_set_everywhere(t) ==
    LET g == task[t].guild_id IN
    /\ task[t].pc = "pitch_writing"
    /\ pitch' = [h \in Guilds |-> task[t].magnitude]
    /\ writer' = [writer EXCEPT ![g] = NoTask]
    /\ task' = [task EXCEPT ![t] = Finish([@ EXCEPT !.wrote = TRUE], "ok")]
    /\ UNCHANGED <<volume, mute, remote_volume, remote_mute, readers,
                   volume0, applied, last_call, filter_set, updates, filters,
                   ext>>

\* .pitch_mut().set(multiplier), the drop of the write guard, and out!(..)
Set_pitch_set(t) ==
    LET g == task[t].guild_id IN
    /\ task[t].pc = "pitch_writing"
    /\ pitch' = [pitch EXCEPT ![g] = task[t].magnitude]
    /\ writer' = [writer EXCEPT ![g] = NoTask]
    /\ task' = [task EXCEPT ![t] = Finish([@ EXCEPT !.wrote = TRUE], "ok")]
    /\ UNCHANGED <<volume, mute, remote_volume, remote_mute, readers,
                   volume0, applied, last_call, filter_set, updates, filters,
                   ext>>

\* Concurrent tasks running the down, pitch set and speed commands.
NextTuning ==
    \/ \E t \in Tasks, e \in CommandEvents : process_interaction(t, e)
    \/ \E t \in Tasks, g \in Guilds, multiplier \in CommandMultipliers,
          checks_pass \in BOOLEAN : Set_run(t, g, multiplier, checks_pass)
    \/ \E t \in Tasks, g \in Guilds, multiplier \in CommandMultipliers,
          pitch_shift \in PitchShifts, checks_pass \in BOOLEAN :
          Speed_run(t, g, multiplier, pitch_shift, checks_pass)
    \/ \E t \in Tasks : Down_read_acquire(t)
    \/ \E t \in Tasks : Down_read_volume(t)
    \/ \E t \in Tasks : set_volume_ok(t)
    \/ \E t \in Tasks : set_volume_err(t)
    \/ \E t \in Tasks : Down_write_acquire(t)
    \/ \E t \in Tasks : Down_set_volume(t)
    \/ \E t \in Tasks : mute_ok(t)
    \/ \E t \in Tasks : mute_err(t)
    \/ \E t \in Tasks : set_filter_ok(t)
    \/ \E t \in Tasks : set_filter_err(t)
    \/ \E t \in Tasks : Set_write_acquire(t)
    \/ \E t \in Tasks : Set_pitch_set(t)

\* The guilds start at one volume, with no filters and the default pitch.
InitTuning == Init /\ volume = [g \in Guilds |-> 30]

SpecTuning == InitTuning /\ [][NextTuning]_vars

(* ------------------------------ ext::util ------------------------------ *)
\* The specifications of this part run no task and keep the player as it is.
InitQuiet ==
    /\ InitCore
    /\ volume = [g \in Guilds |-> MAX_PERCENT]
    /\ filter_set = Filters_default
    /\ updates = <<>>
    /\ pitch = [g \in Guilds |-> DEFAULT_PITCH]
    /\ filters = [g \in Guilds |-> Filters_default]

Quiet == <<player, task, volume0, applied, last_call, tuning>>

\* Bit operators of u32 on naturals; the operands used stay below 2^31.
RECURSIVE bitand(_, _)
bitand(a, b) ==
    IF a = 0 \/ b = 0 THEN 0
    ELSE (a % 2) * (b % 2) + 2 * bitand(a \div 2, b \div 2)

RECURSIVE bitor(_, _)
bitor(a, b) ==
    IF a = 0 THEN b
    ELSE IF b = 0 THEN a
    ELSE (IF a % 2 = 1 \/ b % 2 = 1 THEN 1 ELSE 0)
         + 2 * bitor(a \div 2, b \div 2)

shl(a, n) == a * 2 ^ n
shr(a, n) == a \div (2 ^ n)
as_u8(a) == a % 256

rgb_to_hex_shift8(rgb) ==
    bitor(bitor(shl(rgb[1], 8), shl(rgb[2], 8)), rgb[3])

\* rgb_to_hex: ((rgb[0] as u32) << 16) | ((rgb[1] as u32) << 8) | (rgb[2] as u32)
rgb_to_hex(rgb) ==
    bitor(bitor(shl(rgb[1], 16), shl(rgb[2], 8)), rgb[3])

\* hex_to_rgb: [((hex >> 16) & 0xFF) as u8, ((hex >> 8) & 0xFF) as u8,
\*              (hex & 0xFF) as u8]
hex_to_rgb(hex) ==
    <<as_u8(bitand(shr(hex, 16), 255)),
      as_u8(bitand(shr(hex, 8), 255)),
      as_u8(bitand(hex, 255))>>

\* bytes and u32 values the conversions are called on; the last two values
\* of Hexes use more than 24 bits
Bytes == {0, 1, 127, 128, 255}
Hexes == {0, 1, 255, 256, 65535, 65536, 1193046, 8388608, 11259375, 16777215,
          16777216, 2147483647}

\* tests::rgb_to_hex and tests::rgb_to_hex_to_rgb: hex_to_rgb(rgb_to_hex(rgb))
call_rgb_to_hex(rgb) ==
    /\ util = NoCall
    /\ util' = [fn |-> "rgb_to_hex", arg |-> rgb, result |-> rgb_to_hex(rgb),
                back |-> hex_to_rgb(rgb_to_hex(rgb))]
    /\ UNCHANGED <<Quiet, interleave, request>>

\* tests::hex_to_rgb_to_hex: rgb_to_hex(hex_to_rgb(hex))
call_hex_to_rgb(hex) ==
    /\ util = NoCall
    /\ util' = [fn |-> "hex_to_rgb", arg |-> hex, result |-> hex_to_rgb(hex),
                back |-> rgb_to_hex(hex_to_rgb(hex))]
    /\ UNCHANGED <<Quiet, interleave, request>>

(* --------------------------- MultiInterleave --------------------------- *)
MaxIters == 3
MaxLen == 3
MaxNones == 2

\* The lists of at most MaxIters sequences of at most MaxLen items; the item
\* at position j of sequence i is <<i, j>>, so that every item is distinct.
Items(i, len) == [j \in 1..len |-> <<i, j>>]
InterleaveInputs ==
    UNION {{[i \in 1..n |-> Items(i, lens[i])] : lens \in [1..n -> 0..MaxLen]}
           : n \in 0..MaxIters}

\* multi_interleave(iters): MultiInterleave::new, with current: 0
MultiInterleave_new(iters) ==
    [fn |-> "multi_interleave", input |-> iters, iterators |-> iters,
     current |-> 0, yielded |-> <<>>, nones |-> 0]

\* The while loop of next: take self.iterators[self.current], advance
\* self.current, return the iterator's item if it has one, else count it as
\* exhausted; None after iterators_len exhausted iterators in a row.
RECURSIVE next_loop(_, _, _)
next_loop(iterators, current, exhausted) ==
    LET iterators_len == Len(iterators)
        current_iter == iterators[current + 1]
        advanced == (current + 1) % iterators_len
    IN  IF ~(exhausted < iterators_len)
        THEN [item |-> None, iterators |-> iterators, current |-> current]
        ELSE IF current_iter # <<>>
        THEN [item |-> Some(Head(current_iter)),
              iterators |-> [iterators EXCEPT ![current + 1] = Tail(current_iter)],
              current |-> advanced]
        ELSE next_loop(iterators, advanced, exhausted + 1)

MultiInterleave_next_stay(self) ==
    IF Len(self.iterators) = 0
    THEN [item |-> None, iterators |-> self.iterators, current |-> self.current]
    ELSE next_loop(self.iterators, 0, 0)

\* <MultiInterleave as Iterator>::next
MultiInterleave_next(self) ==
    IF Len(self.iterators) = 0
    THEN [item |-> None, iterators |-> self.iterators, current |-> self.current]
    ELSE next_loop(self.iterators, self.current, 0)

\* one call of next() on the MultiInterleave; calls go on after the first None
call_next ==
    /\ interleave.nones < MaxNones
    /\ LET r == MultiInterleave_next(interleave)
       IN  interleave' =
               [interleave EXCEPT
                   !.iterators = r.iterators,
                   !.current = r.current,
                   !.yielded = IF r.item = None THEN @ ELSE Append(@, r.item[1]),
                   !.nones = IF r.item = None THEN @ + 1 ELSE @,
                   !.fn = IF r.item # None /\ interleave.nones > 0
                          THEN "item_after_none" ELSE @]
    /\ UNCHANGED <<Quiet, util, request>>

NextInterleave == call_next

InitInterleave ==
    /\ InitQuiet
    /\ util = NoCall
    /\ request = NoCall
    /\ interleave \in {MultiInterleave_new(iters) : iters \in InterleaveInputs}

SpecInterleave == InitInterleave /\ [][NextInterleave]_vars

(* ---------------------------- chunked_range ---------------------------- *)
MaxChunks == 3
\* usize at its narrowest, 16 bits; a wider usize overflows in the same way
\* at its own limit
USIZE_MODULUS == 65536
Starts == {0, 5, USIZE_MODULUS - 6}
ChunkSizes == {0, 1, 3, 10}
ChunkSizeLists == UNION {[1..n -> ChunkSizes] : n \in 0..MaxChunks}

\* usize addition: with overflow checks (debug builds) an overflow panics,
\* without them (release builds) it wraps
usize_add(a, b, overflow_checks) ==
    IF a + b < USIZE_MODULUS THEN [panic |-> FALSE, value |-> a + b]
    ELSE IF overflow_checks THEN [panic |-> TRUE, value |-> 0]
    ELSE [panic |-> FALSE, value |-> (a + b) % USIZE_MODULUS]

\* the closure of chunked_range over the chunk sizes still to come:
\* range = current_start..current_start + chunk_size;
\* current_start += chunk_size
RECURSIVE chunked_range_from(_, _, _)
chunked_range_from(current_start, chunk_sizes, overflow_checks) ==
    IF chunk_sizes = <<>> THEN [panicked |-> FALSE, chunks |-> <<>>]
    ELSE LET end == usize_add(current_start, Head(chunk_sizes), overflow_checks)
             rest == chunked_range_from(end.value, Tail(chunk_sizes),
                                        overflow_checks)
         IN  IF end.panic THEN [panicked |-> TRUE, chunks |-> <<>>]
             ELSE [panicked |-> rest.panicked,
                   chunks |-> <<[start |-> current_start, end |-> end.value]>>
                              \o rest.chunks]

chunked_range_restarting(start, chunk_sizes, overflow_checks) ==
    [panicked |-> FALSE,
     chunks |-> [i \in 1..Len(chunk_sizes) |->
                    [start |-> start, end |-> start + chunk_sizes[i]]]]

\* chunked_range(start, chunk_sizes), every chunk taken from the iterator
chunked_range(start, chunk_sizes, overflow_checks) ==
    chunked_range_from(start, chunk_sizes, overflow_checks)

\* the integers a range start..end yields
range_len(r) == IF r.start < r.end THEN r.end - r.start ELSE 0

call_chunked_range(start, chunk_sizes, overflow_checks) ==
    /\ util = NoCall
    /\ util' = [fn |-> "chunked_range", start |-> start, sizes |-> chunk_sizes,
                result |-> chunked_range(start, chunk_sizes, overflow_checks)]
    /\ UNCHANGED <<Quiet, interleave, request>>

(* --------------------------- pretty_truncate --------------------------- *)
MaxGraphemes == 4
\* A str is the sequence of its graphemes.
Graphemes == {"a", "b"}
Strs == UNION {[1..n -> Graphemes] : n \in 0..MaxGraphemes}
NewLens == 0..(MaxGraphemes + 1)

\* usize subtraction: with overflow checks an overflow panics, without
\* them it wraps
usize_sub(a, b, overflow_checks) ==
    IF a >= b THEN [panic |-> FALSE, value |-> a - b]
    ELSE IF overflow_checks THEN [panic |-> TRUE, value |-> 0]
    ELSE [panic |-> FALSE, value |-> (a - b) % USIZE_MODULUS]

\* ViaGrapheme::grapheme_len
grapheme_len(str) == Len(str)

\* ViaGrapheme::grapheme_truncate
grapheme_truncate(str, new_len) ==
    IF grapheme_len(str) <= new_len THEN str ELSE SubSeq(str, 1, new_len)

\* <str as PrettyTruncator>::trail: the one grapheme U+2026, written "..."
trail == <<"...">>

\* <str as PrettyTruncator>::pretty_truncate
pretty_truncate(str, new_len, overflow_checks) ==
    IF grapheme_len(str) <= new_len
    THEN [panicked |-> FALSE, value |-> str]
    ELSE LET len == usize_sub(new_len, grapheme_len(trail), overflow_checks)
         IN  IF len.panic THEN [panicked |-> TRUE, value |-> <<>>]
             ELSE [panicked |-> FALSE,
                   value |-> grapheme_truncate(str, len.value) \o trail]

call_pretty_truncate(str, new_len, overflow_checks) ==
    /\ util = NoCall
    /\ util' = [fn |-> "pretty_truncate", str |-> str, new_len |-> new_len,
                result |-> pretty_truncate(str, new_len, overflow_checks)]
    /\ UNCHANGED <<Quiet, interleave, request>>

(* ------------------------- PrettifiedTimestamp ------------------------- *)
\* durations in milliseconds, up to the largest integer of the checker
Durations == {0, 7, 45, 999, 1000, 1001, 9999, 59000, 59999, 60000, 61000,
              599999, 3599000, 3599999, 3600000, 3601000, 3660000, 3661001,
              35999999, 36000000, 363661001, 2147483647}

Digit(d) == CASE d = 0 -> "0" [] d = 1 -> "1" [] d = 2 -> "2" [] d = 3 -> "3"
              [] d = 4 -> "4" [] d = 5 -> "5" [] d = 6 -> "6" [] d = 7 -> "7"
              [] d = 8 -> "8" [] d = 9 -> "9"

\* {x}: the decimal digits of a non-negative integer
RECURSIVE to_string(_)
to_string(x) ==
    IF x < 10 THEN <<Digit(x)>> ELSE to_string(x \div 10) \o <<Digit(x % 10)>>

\* {x:0w}: the decimal digits, padded with zeros on the left to the width
RECURSIVE zero_pad(_, _)
zero_pad(digits, width) ==
    IF Len(digits) >= width THEN digits ELSE zero_pad(<<"0">> \o digits, width)
pad_none(x, width) == to_string(x)
pad(x, width) == zero_pad(to_string(x), width)

\* divrem of fmt, on non-negative operands
divrem(x, y) == <<x \div y, x % y>>

\* <PrettifiedTimestamp as Display>::fmt
PrettifiedTimestamp_fmt(num_milliseconds) ==
    LET s_ms == divrem(num_milliseconds, 1000)
        m_s == divrem(s_ms[1], 60)
        h_m == divrem(m_s[1], 60)
        ms == s_ms[2]
        s == m_s[2]
        m == h_m[2]
        h == h_m[1]
    IN  IF h = 0 /\ m = 0 /\ s = 0
        THEN <<"0", ":", "0", "0", ".">> \o pad(ms, 3)
        ELSE IF h = 0
        THEN to_string(m) \o <<":">> \o pad(s, 2)
        ELSE to_string(h) \o <<":">> \o pad(m, 2) \o <<":">> \o pad(s, 2)

\* tests::prettified_timestamp_to_string: Duration::milliseconds(t).into(),
\* then to_string()
call_fmt(num_milliseconds) ==
    /\ util = NoCall
    /\ util' = [fn |-> "fmt", arg |-> num_milliseconds,
                result |-> PrettifiedTimestamp_fmt(num_milliseconds)]
    /\ UNCHANGED <<Quiet, interleave, request>>

NextUtil ==
    \/ \E str \in Strs, new_len \in NewLens, overflow_checks \in BOOLEAN :
          call_pretty_truncate(str, new_len, overflow_checks)
    \/ \E num_milliseconds \in Durations : call_fmt(num_milliseconds)
    \/ \E rgb \in Bytes \X Bytes \X Bytes : call_rgb_to_hex(rgb)
    \/ \E hex \in Hexes : call_hex_to_rgb(hex)
    \/ \E start \in Starts, chunk_sizes \in ChunkSizeLists,
          overflow_checks \in BOOLEAN :
          call_chunked_range(start, chunk_sizes, overflow_checks)

InitUtil == InitQuiet /\ InitExt

SpecUtil == InitUtil /\ [][NextUtil]_vars

(* ------------------------- interactions::server ------------------------ *)
\* What the body of a request deserializes to: nothing (not the JSON of an
\* Interaction), or an Interaction of some kind with some data.
NotJson == [kind |-> "none", data |-> None]
Contents ==
    {NotJson,
     [kind |-> "Ping", data |-> None],
     [kind |-> "ApplicationCommand", data |-> Some("ApplicationCommand")],
     [kind |-> "ApplicationCommand", data |-> None],
     [kind |-> "ApplicationCommand", data |-> Some("MessageComponent")],
     [kind |-> "MessageComponent", data |-> Some("MessageComponent")]}

\* the message Discord signs: the timestamp followed by the body
signed_message(timestamp, content) == <<timestamp, content>>

\* values of the x-signature-ed25519 header: bytes that are no string, a
\* string that is no hex signature, and the hex of a signature of a message
SignatureValues(timestamp, content) ==
    {[utf8 |-> FALSE, hex |-> FALSE, signed |-> <<>>],
     [utf8 |-> TRUE, hex |-> FALSE, signed |-> <<>>],
     [utf8 |-> TRUE, hex |-> TRUE,
      signed |-> signed_message(unwrap_or(timestamp, "none"), content)],
     [utf8 |-> TRUE, hex |-> TRUE, signed |-> signed_message("t0", NotJson)]}

Requests ==
    UNION {
        [method : {"POST", "GET"}, path : {"/", "/other"},
         timestamp : {timestamp}, content : {content},
         signature : {None} \cup
                     {Some(v) : v \in SignatureValues(timestamp, content)},
         readable : BOOLEAN]
        : timestamp \in {None, Some("t1")}, content \in Contents}

verify_any(message, signature) == TRUE

\* PUBLIC_KEY.verify(message, &signature).is_ok(): the signature is one of
\* this message under the key
verify(message, signature) == signature.signed = message

Respond(status, body, f_calls) ==
    [outcome |-> "response", status |-> status, body |-> body,
     f_calls |-> f_calls]
Fail(outcome, f_calls) ==
    [outcome |-> outcome, status |-> 0, body |-> "none", f_calls |-> f_calls]

\* interaction_handler(req, f), with f returning Ok or Err when it is called
interaction_handler(req, f_result) ==
    IF req.method # "POST" THEN Respond(405, "empty", 0)
    ELSE IF req.path # "/" THEN Respond(404, "empty", 0)
    ELSE IF req.timestamp = None THEN Respond(400, "empty", 0)
    ELSE IF req.signature = None \/ ~req.signature[1].utf8
    THEN Respond(400, "empty", 0)
    ELSE IF ~req.signature[1].hex THEN Fail("panic", 0)
    ELSE IF ~req.readable THEN Fail("err", 0)
    ELSE IF ~verify(signed_message(req.timestamp[1], req.content),
                    req.signature[1])
    THEN Respond(401, "empty", 0)
    ELSE IF req.content = NotJson THEN Fail("err", 0)
    ELSE IF req.content.kind = "Ping" THEN Respond(200, "Pong", 0)
    ELSE IF req.content.kind = "ApplicationCommand"
    THEN IF req.content.data # Some("ApplicationCommand")
         THEN Fail("panic", 0)
         ELSE IF f_result = "err" THEN Fail("err", 1)
         ELSE Respond(200, "response of f", 1)
    ELSE Respond(400, "empty", 0)

\* one request served: service_fn(|req| interaction_handler(req, handler))
serve(req, f_result) ==
    /\ request = NoCall
    /\ request' = [fn |-> "interaction_handler", req |-> req,
                   f_result |-> f_result,
                   result |-> interaction_handler(req, f_result)]
    /\ UNCHANGED <<Quiet, util, interleave>>

NextServer == \E req \in Requests, f_result \in {"ok", "err"} : serve(req, f_result)

InitServer == InitQuiet /\ InitExt

SpecServer == InitServer /\ [][NextServer]_vars

(* ============================== claims ================================= *)
Delta(t) == as_u16(unwrap_or(task[t].percent, DEFAULT_PERCENT))
HasRead(t) == task[t].old_percent # None
Mismatch == /\ last_call.kind # "none"
            /\ last_call.interaction.kind # inter_types(last_call.kind)
Match == /\ last_call.kind # "none"
         /\ last_call.interaction.kind = inter_types(last_call.kind)

\* C1 (as claimed): when the remote call of a Down operation fails, the
\* guild's stored volume and mute flag equal their values from before the
\* operation, the operation returns an error and the remote call was issued
\* once.  Stated for a Down that is the only operation on its guild, so that
\* the values from before the operation are the initial ones.
C1_TwoPhaseOnFailure ==
    \A t \in Tasks :
        ( /\ task[t].pc = "done"
          /\ task[t].calls # <<>>
          /\ task[t].result = "err"
          /\ \A u \in Tasks \ {t} : task[u].guild_id # task[t].guild_id )
        => /\ volume[task[t].guild_id] = volume0[task[t].guild_id]
           /\ mute[task[t].guild_id] = FALSE
           /\ Len(task[t].calls) = 1

\* C2 (as claimed): once every Down on a guild has completed with a new
\* volume, and the decrements sum to less than the original volume, the
\* stored volume is the original volume minus every decrement.
C2_NoLostUpdates ==
    \A g \in Guilds :
        ( /\ \A t \in Tasks : task[t].guild_id = g =>
                 /\ task[t].pc = "done"
                 /\ task[t].result = "ok"
                 /\ task[t].new_percent # None
          /\ applied[g] < volume0[g] )
        => volume[g] = volume0[g] - applied[g]

\* C3: a Down that read volume V with decrement D (10 when not given) and
\* V - D <= 0 takes the muted outcome (no new volume, mute flag set, never a
\* volume write), every new volume is the exact difference V - D >= 1 (no
\* wrap-around), and no stored volume is zero or negative.
C3_DecrementBelowMinimumMutes ==
    /\ \A t \in Tasks : HasRead(t) =>
         LET V == task[t].old_percent[1]
             D == Delta(t)
         IN  /\ V - D <= 0 =>
                  /\ task[t].new_percent = None
                  /\ task[t].pc \in {"await_mute", "done"}
                  /\ mute[task[t].guild_id]
             /\ task[t].new_percent # None =>
                  /\ task[t].new_percent[1] = V - D
                  /\ V - D >= 1
    /\ \A g \in Guilds : volume[g] > 0
    \* the computation over the whole domain of volumes and decrements
    /\ (\A t \in Tasks : task[t].pc = "idle") =>
         \A V \in MIN_PERCENT..MAX_PERCENT, D \in MIN_PERCENT..MAX_PERCENT :
             maybe_new_percent(V, Some(D)) =
                 IF V - D <= 0 THEN None ELSE Some(V - D)

C3_Witness ==
    \E t \in Tasks :
        /\ task[t].pc = "done"
        /\ task[t].percent = None
        /\ task[t].old_percent = Some(DEFAULT_PERCENT)
        /\ task[t].new_percent = None
        /\ mute[task[t].guild_id]

\* C4: a Down that computed V - D <= 0 issues the remote mute call and no
\* remote volume call during the operation.
C4_MuteBranchCallsOnlyMute ==
    \A t \in Tasks :
        (HasRead(t) /\ task[t].old_percent[1] - Delta(t) <= 0)
        => /\ \A i \in 1..Len(task[t].calls) :
                 task[t].calls[i].method # "set_volume"
           /\ \E i \in 1..Len(task[t].calls) :
                 /\ task[t].calls[i].method = "mute"
                 /\ task[t].calls[i].guild_id = task[t].guild_id

C4_Witness ==
    \E t \in Tasks :
        /\ task[t].pc = "done"
        /\ task[t].old_percent = Some(10)
        /\ task[t].percent = Some(20)
        /\ task[t].result = "ok"

\* C5: every guild's stored volume is an integer within 1..1000 in every
\* reachable state; a muted guild does not hold the volume 0.
C5_VolumeStrictlyPositiveBounded ==
    \A g \in Guilds :
        /\ volume[g] \in MIN_PERCENT..MAX_PERCENT
        /\ mute[g] => volume[g] # 0

C5_Witness ==
    \E g \in Guilds : \E t, u \in Tasks :
        /\ mute[g]
        /\ volume[g] # volume0[g]
        /\ task[t].guild_id = g /\ task[t].pc = "done" /\ task[t].result = "ok"
        /\ task[t].new_percent # None
        /\ task[u].guild_id = g /\ task[u].pc = "done"
        /\ task[u].new_percent = None /\ HasRead(u)

\* C6: a constructor called with an interaction whose discriminant is the
\* one mapped to its kind returns a context of that kind holding exactly the
\* interaction and the bot state passed in.
C6_MatchingConstructionKeepsPayload ==
    Match =>
        /\ last_call.result.outcome = "return"
        /\ last_call.result.kind = last_call.kind
        /\ last_call.result.fn = fn_idents(last_call.kind)
        /\ last_call.result.interaction = last_call.interaction
        /\ last_call.result.bot = last_call.bot

C6_Witness ==
    /\ Match
    /\ last_call.kind = "Autocomplete"
    /\ last_call.interaction.id = MaxId
    /\ last_call.result.outcome = "return"

\* C7: a constructor called with an interaction whose discriminant is not
\* the one mapped to its kind never returns a context, and the four kinds map
\* to four pairwise distinct discriminants.
C7_MismatchNeverConstructs ==
    /\ Mismatch =>
         /\ last_call.result.outcome # "return"
         /\ last_call.result.kind = "none"
         /\ last_call.result.interaction = NoInteraction
    /\ \A k1, k2 \in kinds : k1 # k2 => inter_types(k1) # inter_types(k2)
    /\ \A k \in kinds : inter_types(k) \in InteractionType \ {"Ping"}

C7_Witness ==
    /\ Mismatch
    /\ last_call.kind = "Component"
    /\ last_call.interaction.kind = "Ping"
    /\ last_call.result.outcome = "panic"

\* C8 (as claimed): a kind mismatch in a typed-context constructor produces a
\* recoverable error value, not an abort.
C8_MismatchIsErrorValue ==
    Mismatch => last_call.result.outcome = "err"

\* C8 (amended): a kind mismatch in a typed-context constructor panics with
\* the message generated for the constructor's kind; no error value is
\* returned.
C8_MismatchPanics ==
    Mismatch =>
        /\ last_call.result.outcome = "panic"
        /\ last_call.result.msg = panic_msgs(last_call.kind)
        /\ last_call.result.fn = fn_idents(last_call.kind)

C8_Witness ==
    /\ Mismatch
    /\ last_call.kind = "App"
    /\ last_call.interaction.kind = "ModalSubmit"
    /\ last_call.result.outcome = "panic"

\* C9: in every dispatch of an InteractionCreate event the constructor that
\* is invoked is the one whose mapped discriminant is the event's own
\* discriminant, and it does not take its failure path.
C9_DispatchSelectsMatchingConstructor ==
    \A t \in Tasks :
        task[t].ctor.outcome # "none" =>
            /\ task[t].event.kind = "InteractionCreate"
            /\ \E k \in kinds :
                 /\ task[t].ctor.fn = fn_idents(k)
                 /\ inter_types(k) = task[t].event.interaction.kind
            /\ task[t].ctor.outcome = "return"
            /\ task[t].result # "panic"

C9_Witness ==
    \E t, u \in Tasks :
        /\ task[t].ctor.outcome = "return"
        /\ task[t].event.interaction.kind = "ModalSubmit"
        /\ task[u].ctor.outcome = "return"
        /\ task[u].event.interaction.kind = "ApplicationCommand"

\* C10: for an event of a kind other than Ready, GuildCreate, GuildDelete,
\* InteractionCreate and VoiceStateUpdate, process returns success, builds no
\* context, invokes no handler, issues no remote call, and the step leaves
\* the player state unchanged.
C10_OtherEventsAreNoOps ==
    /\ [](\A t \in Tasks :
            (task[t].pc # "idle" /\ task[t].event.kind \notin HandledEvents) =>
                /\ task[t].pc = "done"
                /\ task[t].result = "ok"
                /\ task[t].context = "none"
                /\ task[t].invoked = 0
                /\ task[t].ctor = NotCalled
                /\ task[t].handler_result = "none"
                /\ task[t].calls = <<>>)
    /\ [][\A t \in Tasks :
            ( /\ task[t].pc = "idle"
              /\ task'[t].pc # "idle"
              /\ task'[t].event.kind \notin HandledEvents )
            => UNCHANGED player]_vars

C10_Witness ==
    \E t, u \in Tasks :
        /\ task[t].pc = "done"
        /\ task[t].event.kind = "TypingStart"
        /\ task[u].pc = "done"
        /\ task[u].event.kind = "InteractionCreate"
        /\ volume # volume0

\* C11: for an event of kind Ready, GuildCreate, GuildDelete,
\* InteractionCreate or VoiceStateUpdate, process builds the context of that
\* kind, invokes its processing exactly once, and returns what that
\* processing returned: an error is not suppressed and nothing is invoked a
\* second time.
C11_HandledEventsReturnHandlerResult ==
    \A t \in Tasks :
        (task[t].pc # "idle" /\ task[t].event.kind \in HandledEvents) =>
            /\ task[t].context = task[t].event.kind
            /\ task[t].invoked = 1
            /\ task[t].pc # "done" =>
                 task[t].result = "pending" /\ task[t].handler_result = "none"
            /\ task[t].pc = "done" =>
                 /\ task[t].handler_result \in {"ok", "err"}
                 /\ task[t].result = task[t].handler_result
                 /\ Len(task[t].calls) <= 1

C11_Witness ==
    \E t, u \in Tasks :
        /\ task[t].pc = "done"
        /\ task[t].event.kind = "VoiceStateUpdate"
        /\ task[t].handler_result = "err"
        /\ task[u].pc = "done"
        /\ task[u].event.kind = "InteractionCreate"
        /\ task[u].calls # <<>>
        /\ task[u].handler_result = "err"

(* ---- filter claims: A and B range over two updates applied in a row ---- *)
Accepted(i) == updates[i].update # None
TimescaleOf(filter) == unwrap_or(filter.timescale, Timescale_default)
SubFields == {"speed", "pitch", "rate"}
\* the Timescale sub-fields an effect writes, and the value it writes
Written(u) == IF u.type = "pitch" THEN {"pitch"} ELSE {"speed", "rate"}
ValueOf(u, f) ==
    CASE f = "pitch" -> u.multiplier
      [] f = "speed" -> IF u.pitch_shift THEN None ELSE u.multiplier
      [] f = "rate" -> IF u.pitch_shift THEN u.multiplier ELSE None

\* C12: for effects A then B (SetPitch or SpeedFilter) applied in a row,
\* every Timescale sub-field B writes has B's value and every other one has
\* the value it had after A; the result always has a Timescale.
C12_LastWriteWins ==
    \A i \in 2..Len(updates) :
        (Accepted(i - 1) /\ Accepted(i)) =>
            LET B == updates[i].update[1]
                afterA == updates[i - 1].after
                afterB == updates[i].after
            IN  /\ updates[i].before = afterA
                /\ afterB.timescale # None
                /\ \A f \in SubFields :
                     TimescaleOf(afterB)[f] =
                         IF f \in Written(B) THEN ValueOf(B, f)
                         ELSE TimescaleOf(afterA)[f]

C12_Witness ==
    /\ Len(updates) = 2
    /\ Accepted(1) /\ Accepted(2)
    /\ updates[1].type = "speed" /\ ~updates[1].pitch_shift
    /\ updates[1].update[1].multiplier = Some(HALF)
    /\ updates[2].type = "speed" /\ updates[2].pitch_shift
    /\ TimescaleOf(filter_set).speed = None
    /\ TimescaleOf(filter_set).rate = Some(2 * ONE)

\* what SpeedFilter::new stores for an accepted multiplier
Stored(input) == IF abs(input - DEFAULT_SPEED) > ERR_MARGIN THEN Some(input) ELSE None

\* C13 (as claimed): applying SpeedFilter(m, pitch_shift) preserves
\* Timescale.pitch and the other slots; without pitch_shift the result has
\* speed = m and rate unset, with pitch_shift rate = m and speed unset.
C13_SpeedWritesArgument ==
    \A i \in 1..Len(updates) :
        (Accepted(i) /\ updates[i].type = "speed") =>
            LET m == Some(updates[i].input)
                ts == TimescaleOf(updates[i].after)
            IN  /\ ts.pitch = TimescaleOf(updates[i].before).pitch
                /\ updates[i].after.tremolo = updates[i].before.tremolo
                /\ ~updates[i].pitch_shift => ts.speed = m /\ ts.rate = None
                /\ updates[i].pitch_shift => ts.rate = m /\ ts.speed = None

\* C13 (amended): applying SpeedFilter(m, pitch_shift) preserves
\* Timescale.pitch and the other slots; the field it selects (speed without
\* pitch_shift, rate with it) is m when m is further than the margin from
\* 1.0 and unset otherwise, and the other of the two is unset.  From no
\* filters, SetPitch(1.5) then SpeedFilter(2.0, false) gives pitch 1.5,
\* speed 2.0, rate unset.
C13_SpeedKeepsPitch ==
    /\ \A i \in 1..Len(updates) :
         (Accepted(i) /\ updates[i].type = "speed") =>
             LET m == Stored(updates[i].input)
                 ts == TimescaleOf(updates[i].after)
             IN  /\ updates[i].after.timescale # None
                 /\ ts.pitch = TimescaleOf(updates[i].before).pitch
                 /\ updates[i].after.tremolo = updates[i].before.tremolo
                 /\ ~updates[i].pitch_shift => ts.speed = m /\ ts.rate = None
                 /\ updates[i].pitch_shift => ts.rate = m /\ ts.speed = None
    /\ ( /\ Len(updates) = 2
         /\ updates[1].before = Filters_default
         /\ updates[1].type = "pitch" /\ updates[1].input = 3 * HALF
         /\ updates[2].type = "speed" /\ updates[2].input = 2 * ONE
         /\ ~updates[2].pitch_shift )
       => /\ updates[1].after.timescale =
                Some([pitch |-> Some(3 * HALF), speed |-> None, rate |-> None])
          /\ filter_set.timescale =
                Some([pitch |-> Some(3 * HALF), speed |-> Some(2 * ONE),
                      rate |-> None])

C13_Witness ==
    /\ Len(updates) = 2
    /\ updates[1].before = Filters_default
    /\ updates[1].type = "pitch" /\ updates[1].input = 3 * HALF
    /\ updates[2].type = "speed" /\ updates[2].input = 2 * ONE
    /\ ~updates[2].pitch_shift
    /\ TimescaleOf(filter_set).pitch = Some(3 * HALF)

\* C14: applying SetPitch changes only Timescale.pitch: speed, rate and the
\* other slots keep the values of the input (unset without a Timescale).
C14_PitchChangesOnlyPitch ==
    \A i \in 1..Len(updates) :
        (Accepted(i) /\ updates[i].type = "pitch") =>
            LET ts == TimescaleOf(updates[i].after)
                before == updates[i].before
            IN  /\ updates[i].after.timescale # None
                /\ ts.pitch = updates[i].update[1].multiplier
                /\ ts.speed = IF before.timescale = None THEN None
                              ELSE before.timescale[1].speed
                /\ ts.rate = IF before.timescale = None THEN None
                             ELSE before.timescale[1].rate
                /\ updates[i].after.tremolo = before.tremolo

C14_Witness ==
    \E i \in 1..Len(updates) :
        /\ Accepted(i) /\ updates[i].type = "pitch"
        /\ updates[i].input = HALF
        /\ updates[i].before.timescale # None
        /\ updates[i].before.timescale[1].rate = Some(3 * HALF)
        /\ updates[i].before.tremolo # None
        /\ TimescaleOf(updates[i].after).pitch = Some(HALF)

\* C15: an effect constructed with exactly 1.0 is accepted, reports the
\* magnitude 1.0, classifies as Default, and its apply leaves its
\* sub-fields unset, as in a Timescale it was never applied to.
C15_NeutralIsDefaultAndUnset ==
    \A i \in 1..Len(updates) :
        updates[i].input = ONE =>
            /\ Accepted(i)
            /\ updates[i].magnitude = ONE
            /\ updates[i].tier = "Default"
            /\ \A f \in Written(updates[i].update[1]) :
                 TimescaleOf(updates[i].after)[f] = Timescale_default[f]

C15_Witness ==
    \E i, j \in 1..Len(updates) :
        /\ updates[i].input = ONE /\ updates[i].type = "pitch"
        /\ TimescaleOf(updates[i].before).pitch # None
        /\ TimescaleOf(updates[i].after).pitch = None
        /\ updates[j].input = ONE /\ updates[j].type = "speed"
        /\ updates[j].tier = "Default"

Low(type) == IF type = "pitch" THEN "Low" ELSE "Slow"
High(type) == IF type = "pitch" THEN "High" ELSE "Fast"

Dispatched(t) == task[t].pc # "idle"
IsSet(t) == task[t].event.interaction.name = "set"
IsSpeed(t) == task[t].event.interaction.name = "speed"
\* the command got past common_checks and its effect's new returned none
Rejected(t) ==
    /\ IsSet(t) \/ IsSpeed(t)
    /\ task[t].guild_id # 0
    /\ task[t].update = None
\* set_filter was called and returned the error
FilterFailed(t) ==
    /\ task[t].pc = "done"
    /\ task[t].update # None
    /\ ~task[t].acked
Untouched(g) ==
    /\ volume[g] = volume0[g] /\ remote_volume[g] = volume0[g]
    /\ ~mute[g] /\ ~remote_mute[g]
    /\ pitch[g] = DEFAULT_PITCH
    /\ filters[g] = Filters_default

\* C16: SetPitch::new and SpeedFilter::new return none for the multiplier 0
\* and an effect for every other multiplier; a pitch set or speed command
\* run with the multiplier 0 issues no remote request and writes nothing,
\* so while only such commands have run every guild's state is as it began.
C16_ZeroMultiplierRejected ==
    /\ \A m \in Multipliers :
         /\ SetPitch_new(m) = None <=> m = 0
         /\ \A ps \in BOOLEAN : SpeedFilter_new(m, ps) = None <=> m = 0
    /\ \A t \in Tasks :
         ((IsSet(t) \/ IsSpeed(t)) /\ task[t].multiplier = 0) =>
             /\ task[t].pc = "done"
             /\ task[t].update = None
             /\ task[t].calls = <<>>
             /\ ~task[t].acked /\ ~task[t].wrote
    /\ (\A t \in Tasks : Dispatched(t) => Rejected(t))
          => /\ \A g \in Guilds : Untouched(g)
             /\ \A g \in Guilds : writer[g] = NoTask /\ readers[g] = {}

C16_Witness ==
    \E t, u \in Tasks :
        /\ IsSet(t) /\ Rejected(t) /\ task[t].multiplier = 0
        /\ IsSpeed(u) /\ Rejected(u) /\ task[u].multiplier = 0
        /\ \A g \in Guilds : Untouched(g)

\* C18: in the pitch set command the local pitch is written only by the
\* command's own write step, after set_filter was acknowledged for the same
\* run; when set_filter fails the run ends with the error and without
\* having written the pitch.
C18_PitchWrittenAfterAcknowledgement ==
    /\ [](\A t \in Tasks :
            /\ task[t].wrote => task[t].acked
            /\ task[t].pc \in {"pitch_write_wait", "pitch_writing"} =>
                   task[t].acked
            /\ FilterFailed(t) =>
                   /\ ~task[t].wrote
                   /\ task[t].handler_result = "err"
                   /\ task[t].result = "err")
    /\ [][\A g \in Guilds :
            pitch'[g] # pitch[g] =>
                \E t \in Tasks :
                    /\ IsSet(t) /\ task[t].guild_id = g
                    /\ task[t].pc = "pitch_writing" /\ task[t].acked
                    /\ task'[t].wrote
                    /\ pitch'[g] = task[t].magnitude]_vars

C18_Witness ==
    \E t, u \in Tasks :
        /\ IsSet(t) /\ task[t].wrote /\ task[t].acked
        /\ pitch[task[t].guild_id] = 3 * HALF
        /\ IsSet(u) /\ FilterFailed(u)
        /\ task[u].guild_id # task[t].guild_id
        /\ pitch[task[u].guild_id] = DEFAULT_PITCH

Reading(t) == task[t].pc = "reading"
Writing(t) == task[t].pc \in {"writing", "pitch_writing"}
Waiting(t) == task[t].pc \in {"read_wait", "write_wait", "pitch_write_wait"}
OnGuild(g) == {t \in Tasks : Dispatched(t) /\ task[t].guild_id = g}

\* C19: for every guild at most one task is between acquiring and dropping
\* the write guard, no task holds a read guard while one does, and a task
\* waiting for a guard of the guild does not advance while one does.
C19_WriterExcludesAll ==
    /\ [](\A g \in Guilds :
            /\ Cardinality({t \in OnGuild(g) : Writing(t)}) <= 1
            /\ (\E t \in OnGuild(g) : Writing(t)) =>
                   ~(\E u \in OnGuild(g) : Reading(u))
            /\ \A t \in OnGuild(g) : Writing(t) <=> writer[g] = t
            /\ \A t \in OnGuild(g) : Reading(t) <=> t \in readers[g])
    /\ [][\A g \in Guilds : \A t \in OnGuild(g) :
            (Waiting(t) /\ \E u \in OnGuild(g) : Writing(u))
                => task'[t].pc = task[t].pc]_vars

C19_Witness ==
    \E g \in Guilds : \E t, u \in OnGuild(g) :
        /\ task[t].pc = "pitch_writing"
        /\ task[u].pc = "write_wait"
        /\ ~ENABLED Down_write_acquire(u)

\* the state kept for a guild: the player data and its lock, the connection's
\* mute flag, and what the remote sides acknowledged for the guild
PlayerState(g) ==
    <<volume[g], pitch[g], mute[g], readers[g], writer[g],
      remote_volume[g], remote_mute[g], filters[g]>>

\* C20: a step of a task changes the state of no guild but the task's own;
\* a task waiting for a guard of its guild can take it whenever no task of
\* the same guild holds one, whatever the tasks of other guilds hold; every
\* guild keeps its entry.
C20_GuildIsolation ==
    /\ [][\A h \in Guilds :
            (\A t \in Tasks : task'[t] # task[t] => task'[t].guild_id # h)
                => PlayerState(h)' = PlayerState(h)]_vars
    /\ [](\A g \in Guilds : \A t \in OnGuild(g) :
            LET held == \E u \in OnGuild(g) : Writing(u)
                read == \E u \in OnGuild(g) : Reading(u)
            IN  /\ task[t].pc = "read_wait" =>
                       (ENABLED Down_read_acquire(t) <=> ~held)
                /\ task[t].pc = "write_wait" =>
                       (ENABLED Down_write_acquire(t) <=> ~held /\ ~read)
                /\ task[t].pc = "pitch_write_wait" =>
                       (ENABLED Set_write_acquire(t) <=> ~held /\ ~read))
    /\ [](/\ DOMAIN volume = Guilds /\ DOMAIN pitch = Guilds
          /\ DOMAIN readers = Guilds /\ DOMAIN writer = Guilds)

C20_Witness ==
    \E t, u \in Tasks :
        /\ task[t].pc = "writing"
        /\ task[u].pc = "pitch_write_wait"
        /\ task[t].guild_id # task[u].guild_id
        /\ ENABLED Set_write_acquire(u)

(* ----------------------- claims about ext::util ------------------------ *)
\* C21: rgb_to_hex([r, g, b]) = r * 65536 + g * 256 + b; hex_to_rgb undoes
\* rgb_to_hex on every triple of bytes, and rgb_to_hex undoes hex_to_rgb on
\* every value below 2^24, whose three components are bytes.
C21_RgbHexInverse ==
    /\ util.fn = "rgb_to_hex" =>
          /\ util.result = util.arg[1] * 65536 + util.arg[2] * 256 + util.arg[3]
          /\ util.result < 16777216
          /\ util.back = util.arg
    /\ (util.fn = "hex_to_rgb" /\ util.arg < 16777216) =>
          /\ \A i \in 1..3 : util.result[i] \in 0..255
          /\ util.back = util.arg

C21_Witness ==
    /\ util.fn = "hex_to_rgb"
    /\ util.arg = 11259375
    /\ util.result = <<171, 205, 239>>
    /\ util.back = 11259375

\* the items of the sequences in round-robin order: round r takes the r-th
\* item of every sequence that has one, in list order
RECURSIVE Round(_, _, _)
Round(iters, r, i) ==
    IF i > Len(iters) THEN <<>>
    ELSE (IF Len(iters[i]) >= r THEN <<iters[i][r]>> ELSE <<>>)
         \o Round(iters, r, i + 1)
RECURSIVE Rounds(_, _)
Rounds(iters, r) ==
    IF \A i \in 1..Len(iters) : Len(iters[i]) < r THEN <<>>
    ELSE Round(iters, r, 1) \o Rounds(iters, r + 1)
RoundRobin(iters) == Rounds(iters, 1)
Range(seq) == {seq[k] : k \in 1..Len(seq)}
AllItems(iters) == UNION {Range(iters[i]) : i \in 1..Len(iters)}

\* C22: what next() has yielded so far is the beginning of the round-robin
\* order of the input; no item is yielded twice and items of one sequence
\* come in that sequence's order; once next() has returned none everything
\* has been yielded, exactly once, and no item follows; the cursor is an
\* index of the list whenever the list has one.
C22_RoundRobin ==
    LET rr == RoundRobin(interleave.input)
        y == interleave.yielded
        n == Len(interleave.input)
    IN  /\ Len(y) <= Len(rr)
        /\ y = SubSeq(rr, 1, Len(y))
        /\ \A a, b \in 1..Len(y) : a # b => y[a] # y[b]
        /\ \A a, b \in 1..Len(y) :
             (a < b /\ y[a][1] = y[b][1]) => y[a][2] < y[b][2]
        /\ interleave.nones > 0 =>
               /\ Len(y) = Len(rr)
               /\ Range(y) = AllItems(interleave.input)
               /\ \A i \in 1..n : interleave.iterators[i] = <<>>
        /\ interleave.fn = "multi_interleave"
        /\ n > 0 => interleave.current \in 0..(n - 1)
        /\ n = 0 => interleave.current = 0 /\ y = <<>>

C22_Witness ==
    /\ interleave.input = <<Items(1, 3), Items(2, 1), Items(3, 2)>>
    /\ interleave.yielded =
           <<<<1, 1>>, <<2, 1>>, <<3, 1>>, <<1, 2>>, <<3, 2>>, <<1, 3>>>>
    /\ interleave.nones = MaxNones

RECURSIVE Sum(_)
Sum(seq) == IF seq = <<>> THEN 0 ELSE Head(seq) + Sum(Tail(seq))
\* one range per chunk size, each of its size and beginning where the one
\* before it ended, the first at start
Chunked(start, sizes, result) ==
    /\ ~result.panicked
    /\ Len(result.chunks) = Len(sizes)
    /\ \A i \in 1..Len(sizes) :
         /\ range_len(result.chunks[i]) = sizes[i]
         /\ result.chunks[i].end = result.chunks[i].start + sizes[i]
         /\ result.chunks[i].start =
                IF i = 1 THEN start ELSE result.chunks[i - 1].end
    /\ Len(sizes) > 0 =>
           result.chunks[Len(sizes)].end = start + Sum(sizes)

\* C23 (as claimed): for every start and every list of chunk sizes,
\* chunked_range yields one range per size, chunk i of exactly size_i
\* integers beginning where chunk i-1 ended, together start..start+sum.
C23_ChunksEveryStart ==
    util.fn = "chunked_range" => Chunked(util.start, util.sizes, util.result)

\* C23 (amended): the same for every start and list of chunk sizes whose
\* sum start + sum(sizes) is a usize; past that the addition overflows and
\* chunked_range panics or yields ranges that wrapped around.
C23_ChunksWithinUsize ==
    util.fn = "chunked_range" =>
        IF util.start + Sum(util.sizes) < USIZE_MODULUS
        THEN Chunked(util.start, util.sizes, util.result)
        ELSE \/ util.result.panicked
             \/ \E i \in 1..Len(util.sizes) :
                   range_len(util.result.chunks[i]) # util.sizes[i]

C23_Witness ==
    /\ util.fn = "chunked_range"
    /\ util.start = 5 /\ util.sizes = <<3, 0, 10>>
    /\ util.result.chunks = <<[start |-> 5, end |-> 8], [start |-> 8, end |-> 8],
                              [start |-> 8, end |-> 18]>>

\* C24: pretty_truncate(s, n) returns s when s has at most n graphemes and
\* otherwise the first n-1 graphemes of s followed by the trail; the result
\* has at most n graphemes and the call does not fail.
C24_PrettyTruncate ==
    util.fn = "pretty_truncate" =>
        LET str == util.str
            n == util.new_len
        IN  /\ ~util.result.panicked
            /\ Len(util.result.value) <= n
            /\ Len(str) <= n => util.result.value = str
            /\ Len(str) > n =>
                   util.result.value = SubSeq(str, 1, n - 1) \o trail

\* the number written by a sequence of decimal digits, -1 if one of them is
\* no digit
RECURSIVE Num(_)
Num(digits) ==
    IF digits = <<>> THEN 0
    ELSE LET last == digits[Len(digits)]
             front == Num(SubSeq(digits, 1, Len(digits) - 1))
         IN  IF front < 0 \/ ~(\E d \in 0..9 : Digit(d) = last) THEN 0 - 1
             ELSE front * 10 + (CHOOSE d \in 0..9 : Digit(d) = last)
Field(out, from, to) == Num(SubSeq(out, from, to))

\* C25: for a duration of t >= 0 milliseconds the output is 0:00.mmm with
\* three digits of milliseconds when t < 1000, m:ss when t >= 1000 and the
\* hour part is 0, and h:mm:ss otherwise, with h, m, s the hour, minute
\* (0..59) and second (0..59) parts of t and h written in full.
C25_TimestampFormat ==
    util.fn = "fmt" =>
        LET t == util.arg
            out == util.result
            n == Len(out)
            h == t \div 3600000
            m == (t \div 60000) % 60
            s == (t \div 1000) % 60
        IN  IF t < 1000
            THEN /\ n = 8
                 /\ SubSeq(out, 1, 5) = <<"0", ":", "0", "0", ".">>
                 /\ Field(out, 6, 8) = t
            ELSE IF h = 0
            THEN /\ n = (IF m < 10 THEN 4 ELSE 5)
                 /\ out[n - 2] = ":"
                 /\ Field(out, 1, n - 3) = m
                 /\ Field(out, n - 1, n) = s
            ELSE /\ n >= 7
                 /\ out[n - 2] = ":" /\ out[n - 5] = ":"
                 /\ out[1] # "0"
                 /\ Field(out, 1, n - 6) = h
                 /\ Field(out, n - 4, n - 3) = m
                 /\ Field(out, n - 1, n) = s

C25_Witness ==
    /\ util.fn = "fmt"
    /\ util.arg = 360000000 + 3661001
    /\ util.result = <<"1", "0", "1", ":", "0", "1", ":", "0", "1">>

(* ------------------ claims about interactions::server ------------------ *)
Served == request.fn = "interaction_handler"
Presented(req) ==
    /\ req.method = "POST" /\ req.path = "/"
    /\ req.timestamp # None /\ req.signature # None
Verified(req) ==
    /\ Presented(req)
    /\ req.signature[1].utf8 /\ req.signature[1].hex
    /\ req.readable
    /\ req.signature[1].signed = <<req.timestamp[1], req.content>>

\* C26: f is called only for a POST to "/" with both headers whose signature
\* is one of timestamp + body and whose interaction is an application
\* command; a request failing the first check it fails in the order method,
\* path, headers, signature is answered 405, 404, 400, 401; a verified Ping
\* is answered 200 with Pong and any other verified kind 400, both without
\* a call of f.
C26_HandlerOnlyAfterChecks ==
    Served =>
        LET req == request.req
            res == request.result
            status(n) == res.outcome = "response" /\ res.status = n
                         /\ res.f_calls = 0
        IN  /\ res.f_calls \in {0, 1}
            /\ res.f_calls = 1 =>
                   /\ Verified(req)
                   /\ req.content.kind = "ApplicationCommand"
            /\ req.method # "POST" => status(405)
            /\ (req.method = "POST" /\ req.path # "/") => status(404)
            /\ (req.method = "POST" /\ req.path = "/"
                  /\ (req.timestamp = None \/ req.signature = None))
                   => status(400)
            /\ (Presented(req) /\ req.signature[1].utf8
                  /\ req.signature[1].hex /\ req.readable /\ ~Verified(req))
                   => status(401)
            /\ (Verified(req) /\ req.content.kind = "Ping")
                   => status(200) /\ res.body = "Pong"
            /\ (Verified(req) /\ req.content.kind = "MessageComponent")
                   => status(400)

C26_Witness ==
    /\ Served
    /\ Verified(request.req)
    /\ request.req.content.kind = "ApplicationCommand"
    /\ request.result.f_calls = 1
    /\ request.result.outcome = "response" /\ request.result.status = 200

\* C29: every request ends with a response or an error value, never with a
\* panic; a POST to "/" whose signature header is there but is no signature
\* gets a response with an error status, and an application command whose
\* data is missing or of another kind gets an error value.
C29_NeverAborts ==
    Served =>
        LET req == request.req
            res == request.result
        IN  /\ res.outcome \in {"response", "err"}
            /\ (Presented(req) /\ ~req.signature[1].hex) =>
                   res.outcome = "response" /\ res.status >= 400
            /\ (Verified(req) /\ req.content.kind = "ApplicationCommand"
                  /\ req.content.data # Some("ApplicationCommand")) =>
                   res.outcome = "err"

(* ------------------ further claims about the down command -------------- *)
\* the down commands that got to a guild's player data
DownsOn(g) ==
    {t \in Tasks : /\ Dispatched(t) /\ task[t].guild_id = g
                    /\ task[t].event.interaction.name = "down"}
Audible(t) == task[t].old_percent # None /\ task[t].new_percent # None
Muting(t) == task[t].old_percent # None /\ task[t].new_percent = None

\* C27: once all Down operations on a guild have completed successfully,
\* none of them muting, the guild's stored volume is the volume the remote
\* player acknowledged last.
C27_LocalMatchesRemote ==
    \A g \in Guilds :
        ( /\ DownsOn(g) # {}
          /\ \A t \in DownsOn(g) :
                task[t].pc = "done" /\ task[t].result = "ok" /\ Audible(t) )
            => volume[g] = remote_volume[g]

\* C28: no step of a Down operation on the mute branch changes a stored
\* volume, and no step of one on the audible branch changes a mute flag; a
\* step entering the mute branch sets the guild's mute flag only, and the
\* write of the audible branch changes the guild's stored volume only.
C28_BranchFrames ==
    [][\A t \in Tasks :
          task'[t] # task[t] =>
              LET g == task'[t].guild_id
                  rec == task'[t]
                  branched == rec.old_percent # None
              IN  /\ (branched /\ rec.new_percent = None) =>
                         /\ volume' = volume
                         /\ \A h \in Guilds \ {g} : mute'[h] = mute[h]
                  /\ (branched /\ rec.new_percent # None) =>
                         /\ mute' = mute
                         /\ \A h \in Guilds \ {g} : volume'[h] = volume[h]
                         /\ volume'[g] # volume[g] =>
                                /\ task[t].pc = "writing"
                                /\ volume'[g] = rec.new_percent[1]]_vars

C28_Witness ==
    \E t, u \in Tasks :
        /\ task[t].pc = "done" /\ Muting(t) /\ task[t].result = "ok"
        /\ mute[task[t].guild_id]
        /\ volume[task[t].guild_id] = volume0[task[t].guild_id]
        /\ task[u].pc = "done" /\ Audible(u) /\ task[u].result = "ok"
        /\ ~mute[task[u].guild_id]
        /\ volume[task[u].guild_id] = task[u].new_percent[1]
        /\ volume[task[u].guild_id] # volume0[task[u].guild_id]

====
